---- MODULE Spec2Model ----
(***************************************************************************)
(* lseed: the DNS seed's orchestration (lseed.go).  main wires the flags   *)
(* to one Network View and one poller per configured chain and then starts *)
(* the DNS responder; every poller scrapes its backing node's graph once   *)
(* at start and once per ticker tick and feeds its view with AddNode.      *)
(*                                                                         *)
(* The backing nodes (lnd over gRPC, pkt over HTTP), the ticker and the    *)
(* DNS clients are the environment.  The seed package (NetworkView,        *)
(* DnsServer) is not part of lseed.go; it is modelled from the             *)
(* specification's description of upsert and of query routing.             *)
(***************************************************************************)
EXTENDS Integers, Sequences, FiniteSets, TLC

----------------------------------------------------------------------------
(* Bounds of the model. *)

\* answers (a graph or an error) of the backing nodes over all chains, plus
\* DNS queries answered
MaxEvents == 2
\* chains that one command line gives a flag for
MaxChains == 2
\* nodes in one fetched graph, and the node ids of a chain
MaxGraph == 2
\* addresses of one node
MaxAddrs == 1

----------------------------------------------------------------------------
(* The chains main knows, in the order main handles them. *)

LndChains == {"btc", "ltc", "test"}

Chains == LndChains \cup {"pkt"}

\* the name main gives to seed.NewNetworkView for the chain
ViewName(c) ==
    CASE c = "btc"  -> "bitcoin"
      [] c = "ltc"  -> "litecoin"
      [] c = "test" -> "testnet"
      [] c = "pkt"  -> "pkt"

\* the key of the chain in netViewMap
Prefix(c) ==
    CASE c = "btc"  -> ""
      [] c = "ltc"  -> "ltc."
      [] c = "test" -> "test."
      [] c = "pkt"  -> "pkt."

ChainOfPrefix(p) == CHOOSE c \in Chains : Prefix(c) = p

\* a main that goes to the check and Serve before the pkt block
AfterBlockServeBeforePkt(c) ==
    CASE c = "btc"  -> "ltc"
      [] c = "ltc"  -> "test"
      [] c = "test" -> "check"
      [] c = "pkt"  -> "check"

\* the position of main after the block of chain c
AfterBlock(c) ==
    CASE c = "btc"  -> "ltc"
      [] c = "ltc"  -> "test"
      [] c = "test" -> "pkt"
      [] c = "pkt"  -> "check"

----------------------------------------------------------------------------
(* Flags.  An lnd chain has a host, a TLS path and a macaroon path, each a *)
(* string; the pkt chain has a host only, kept as its characters because   *)
(* pktGetGraph builds a URL from it.                                       *)

Unset == [host |-> "", tls |-> "", mac |-> ""]

LndFlagChoices ==
    { Unset,
      [host |-> "h", tls |-> "t", mac |-> "m"],
      [host |-> "h", tls |-> "t", mac |-> ""],
      [host |-> "h", tls |-> "", mac |-> "m"],
      [host |-> "", tls |-> "t", mac |-> "m"] }

\* "", "h://p", "1:8" (an ip:port without a scheme)
PktHostChoices ==
    { <<>>,
      <<"h", ":", "/", "/", "p">>,
      <<"1", ":", "8">> }

Letters == {"h", "l", "p"}

Digits == {"1", "8"}

GraphPath == <<"/", "g">>

\* url.getScheme: the index of the colon ending a scheme, 0 when the URL has
\* no scheme, -1 when the scheme is missing before a colon
RECURSIVE getScheme(_, _)
getScheme(url, i) ==
    IF i > Len(url) THEN 0
    ELSE IF url[i] \in Letters THEN getScheme(url, i + 1)
    ELSE IF url[i] \in Digits \cup {"+", "-", "."}
         THEN IF i = 1 THEN 0 ELSE getScheme(url, i + 1)
    ELSE IF url[i] = ":" THEN IF i = 1 THEN -1 ELSE i
    ELSE 0

\* the first path segment (up to the first slash) holds a colon
RECURSIVE colonInFirstSegment(_, _)
colonInFirstSegment(url, i) ==
    IF i > Len(url) THEN FALSE
    ELSE IF url[i] = "/" THEN FALSE
    ELSE IF url[i] = ":" THEN TRUE
    ELSE colonInFirstSegment(url, i + 1)

\* http.NewRequest("POST", pktNodeHost+"/api/v1/lightning/graph", ...) returns
\* a request (TRUE) or a nil request and an error (FALSE)
NewRequestOk(host) ==
    LET url == host \o GraphPath
        s   == getScheme(url, 1)
    IN  /\ s >= 0
        /\ s = 0 => ~colonInFirstSegment(url, 1)

----------------------------------------------------------------------------
(* Peer records as the backing nodes report them. *)

AddrLists == UNION { [1..n -> {"addr"}] : n \in 0..MaxAddrs }

\* the lnrpc.LightningNode values chain c's backing node can report
NodesOf(c) == [pubKey : {c} \X (1..MaxGraph), addrs : AddrLists]

\* the graphs (ChannelGraph.Nodes) chain c's backing node can answer with:
\* the first n nodes of the chain, each with some address list
Graphs(c) ==
    { g \in UNION { [1..n -> NodesOf(c)] : n \in 0..MaxGraph } :
        \A i \in DOMAIN g : g[i].pubKey[2] = i }

EmptyRegistry == [k \in {} |-> <<>>]

EmptyMap == [p \in {} |-> ""]

----------------------------------------------------------------------------
VARIABLES
    flags,        \* the parsed command line: chain -> host, tls, mac
    upAtLaunch,   \* chain -> its backing node is reachable when main runs
    mainPc,       \* where main is: "btc" "ltc" "test" "pkt" "check" "serving" "panicked"
    panicMsg,     \* the panic that ended the process, "" while it runs
    netViewMap,   \* main's netViewMap: prefix -> name of the Network View
    pollerView,   \* chain -> the view handed to its poller, "" before `go poller`
    registry,     \* name of a created Network View -> pubKey -> addresses
    pc,           \* chain -> "off" "start" "fetching" "ingesting" "waiting" "panicked"
    hung,         \* chain -> the outstanding fetch will never be answered
    graph,        \* chain -> the nodes of the graph being ingested
    idx,          \* chain -> the position of the range loop in graph
    addCalls,     \* chain -> the nodes passed to AddNode in the running scrape
    ticker,       \* chain -> "none" (not created) "idle" "pending" (a tick waits in ticker.C)
    events,       \* answers of the backing nodes and DNS queries so far
    fetches,      \* chain -> fetches of the graph issued so far
    recv,         \* chain -> ticks received from ticker.C so far
    errLogged,    \* chain -> log.Errorf reports of the poller so far
    lastAnswer,   \* the last DNS answer: the prefix asked and the peers returned
    dnsServer     \* the zone the DNS server was made with, NoDnsServer before

vars == << flags, upAtLaunch, mainPc, panicMsg, netViewMap, pollerView, registry,
           pc, hung, graph, idx, addCalls, ticker, events, fetches, recv,
           errLogged, lastAnswer, dnsServer >>

mainVars == << mainPc, netViewMap, pollerView >>

scrapeVars == << graph, idx, addCalls >>

envVars == << flags, upAtLaunch >>

dnsVars == << lastAnswer, dnsServer >>

\* the process runs: neither main nor a goroutine has panicked
Alive == panicMsg = ""

\* the defaults of the -root-domain and -root-ip flags
rootDomain == "nodes.lightning.directory"

authoritativeIP == "127.0.0.1"

\* no DNS server has been made
NoDnsServer == [rootDomain |-> "", rootIP |-> ""]

NoAnswer == [prefix |-> "none", peers |-> {}]

\* the answer to a name no chain is registered for
NoSuchName == [prefix |-> "nxdomain", peers |-> {}]

\* flag checks that look at the host only, as the pkt block's does
ConfiguredHostOnly(c) ==
    IF c \in LndChains
    THEN flags[c].host # ""
    ELSE flags[c].host # <<>>

\* the flag checks of main: every flag of the chain is non-empty
Configured(c) ==
    IF c \in LndChains
    THEN flags[c].host # "" /\ flags[c].tls # "" /\ flags[c].mac # ""
    ELSE flags[c].host # <<>>

\* some flag of the chain is given
Named(c) ==
    IF c \in LndChains
    THEN flags[c].host # "" \/ flags[c].tls # "" \/ flags[c].mac # ""
    ELSE flags[c].host # <<>>

Init ==
    /\ flags \in { f \in [Chains -> LndFlagChoices \cup [host : PktHostChoices]] :
                     /\ \A c \in LndChains : f[c] \in LndFlagChoices
                     /\ f["pkt"] \in [host : PktHostChoices] }
    /\ Cardinality({ c \in Chains : Named(c) }) <= MaxChains
    /\ upAtLaunch \in { u \in [Chains -> BOOLEAN] : \A c \in Chains : u[c] => Configured(c) }
    /\ mainPc = "btc"
    /\ panicMsg = ""
    /\ netViewMap = EmptyMap
    /\ pollerView = [c \in Chains |-> ""]
    /\ registry = [v \in {} |-> EmptyRegistry]
    /\ pc = [c \in Chains |-> "off"]
    /\ hung = [c \in Chains |-> FALSE]
    /\ graph = [c \in Chains |-> <<>>]
    /\ idx = [c \in Chains |-> 0]
    /\ addCalls = [c \in Chains |-> <<>>]
    /\ ticker = [c \in Chains |-> "none"]
    /\ events = 0
    /\ fetches = [c \in Chains |-> 0]
    /\ recv = [c \in Chains |-> 0]
    /\ errLogged = [c \in Chains |-> 0]
    /\ lastAnswer = NoAnswer
    /\ dnsServer = NoDnsServer

----------------------------------------------------------------------------
(* The seed package, as the specification describes it. *)

\* results per query, the default of the -results flag
NumResults == 25

\* seed.NewDnsServer(netViewMap, ..., *rootDomain, rootIP): the server keeps
\* the zone apex and the IP of its own glue record; the map it is handed is
\* main's netViewMap itself (a Go map is a reference)
NewDnsServer(domain, ip) == [rootDomain |-> domain, rootIP |-> ip]

\* seed.NewNetworkView(name): a view with an empty registry
NewNetworkView(name) == registry @@ (name :> EmptyRegistry)

\* an AddNode that readers can see halfway: the record of node.pubKey is
\* there, its last address is not written yet
UpsertTorn(reg, node) ==
    [k \in DOMAIN reg \cup {node.pubKey} |->
        IF k = node.pubKey
        THEN SubSeq(node.addrs, 1, Len(node.addrs) - 1)
        ELSE reg[k]]

\* NetworkView.AddNode(node) when it succeeds: upsert, the record of
\* node.pubKey is replaced wholesale
Upsert(reg, node) ==
    [k \in DOMAIN reg \cup {node.pubKey} |->
        IF k = node.pubKey THEN node.addrs ELSE reg[k]]

\* the Chain Router and sample of one query for the name prefix p: up to
\* NumResults peers of the view registered under p that have an address
Answers(p) ==
    LET reg      == registry[netViewMap[p]]
        eligible == { k \in DOMAIN reg : Len(reg[k]) > 0 }
        n        == IF Cardinality(eligible) < NumResults
                    THEN Cardinality(eligible) ELSE NumResults
    IN  { S \in SUBSET eligible : Cardinality(S) = n }

----------------------------------------------------------------------------
(* main *)

MustSpecify == "must specify at least one node type"

NilDeref == "invalid memory address or nil pointer dereference"

UnableToConnect(c) == "unable to connect to " \o c \o " lnd"

\* initLightningClient: the cert and macaroon files are read, the node is
\* dialled and GetInfo is called; TRUE when it returns a client
initLightningClient(c, filesOk) == filesOk /\ upAtLaunch[c]

\* every poller is handed the view made first
StartPollerSharedView(c, nView) ==
    /\ pollerView' = [pollerView EXCEPT ![c] =
                         IF DOMAIN registry = {} THEN nView
                         ELSE CHOOSE v \in DOMAIN registry : TRUE]
    /\ pc' = [pc EXCEPT ![c] = "start"]

\* `go poller(lndNode, nView)`, `go pktPoller(*pktNodeHost, nView)`
StartPoller(c, nView) ==
    /\ pollerView' = [pollerView EXCEPT ![c] = nView]
    /\ pc' = [pc EXCEPT ![c] = "start"]

\* the body of a chain's block once its client is there: the view is made,
\* the poller started and the Chain View put in the map
CreateChainView(c) ==
    LET nView == ViewName(c)
    IN  /\ registry' = NewNetworkView(nView)
        /\ StartPoller(c, nView)
        /\ netViewMap' = netViewMap @@ (Prefix(c) :> nView)
        /\ mainPc' = AfterBlock(c)
        /\ UNCHANGED panicMsg

SkipChain(c) ==
    /\ mainPc' = AfterBlock(c)
    /\ UNCHANGED << panicMsg, netViewMap, pollerView, registry, pc >>

MainPanic(msg) ==
    /\ mainPc' = "panicked"
    /\ panicMsg' = msg
    /\ UNCHANGED << netViewMap, pollerView, registry, pc >>

\* the blocks of the bitcoin, litecoin and testnet chains
MainLnd(c) ==
    /\ Alive
    /\ mainPc = c
    /\ IF ~Configured(c) THEN SkipChain(c)
       ELSE \E filesOk \in BOOLEAN :
              IF initLightningClient(c, filesOk)
              THEN CreateChainView(c)
              ELSE MainPanic(UnableToConnect(c))
    /\ UNCHANGED << envVars, hung, scrapeVars, ticker, fetches, recv,
                    errLogged, events, dnsVars >>

\* a pkt block that runs once the responder serves
MainPktAfterServe ==
    /\ Alive
    /\ \/ /\ mainPc = "pkt"
          /\ SkipChain("pkt")
       \/ /\ mainPc = "serving"
          /\ Configured("pkt")
          /\ Prefix("pkt") \notin DOMAIN netViewMap
          /\ registry' = NewNetworkView(ViewName("pkt"))
          /\ StartPoller("pkt", ViewName("pkt"))
          /\ netViewMap' = netViewMap @@ (Prefix("pkt") :> ViewName("pkt"))
          /\ UNCHANGED << mainPc, panicMsg >>
    /\ UNCHANGED << envVars, hung, scrapeVars, ticker, fetches, recv,
                    errLogged, events, dnsVars >>

\* the block of the pkt chain
MainPkt ==
    /\ Alive
    /\ mainPc = "pkt"
    /\ IF Configured("pkt") THEN CreateChainView("pkt") ELSE SkipChain("pkt")
    /\ UNCHANGED << envVars, hung, scrapeVars, ticker, fetches, recv,
                    errLogged, events, dnsVars >>

\* main without its check of the map
NoChainNever(m) == FALSE

\* len(netViewMap) == 0
NoChain(m) == DOMAIN m = {}

\* the check of the map, then NewDnsServer and Serve
MainServe ==
    /\ Alive
    /\ mainPc = "check"
    /\ IF NoChain(netViewMap)
       THEN /\ MainPanic(MustSpecify)
            /\ UNCHANGED dnsServer
       ELSE /\ dnsServer' = NewDnsServer(rootDomain, authoritativeIP)
            /\ mainPc' = "serving"
            /\ UNCHANGED << panicMsg, netViewMap, pollerView, registry, pc >>
    /\ UNCHANGED << envVars, hung, scrapeVars, ticker, fetches, recv,
                    errLogged, events, lastAnswer >>

\* the responder answers one query for the name prefix p
ServeQuery(p) ==
    /\ Alive
    /\ mainPc = "serving"
    /\ events < MaxEvents
    /\ events' = events + 1
    /\ IF p \in DOMAIN netViewMap
       THEN \E S \in Answers(p) : lastAnswer' = [prefix |-> p, peers |-> S]
       ELSE lastAnswer' = NoSuchName
    /\ UNCHANGED << envVars, mainVars, panicMsg, registry, pc, hung, scrapeVars,
                    ticker, fetches, recv, errLogged, dnsServer >>

----------------------------------------------------------------------------
(* poller and pktPoller *)

\* fetches that share one connection: a fetch waits for the others to end
BeginScrapeSerial(c) ==
    /\ \A d \in Chains \ {c} : pc[d] # "fetching"
    /\ fetches' = [fetches EXCEPT ![c] = @ + 1]
    /\ pc' = [pc EXCEPT ![c] = "fetching"]
    /\ UNCHANGED panicMsg

\* scrapeGraph is called: the fetch is issued.  lnd: DescribeGraph is called.
\* pkt: pktGetGraph builds the request, sets its header and sends it; the
\* header is set before the error of NewRequest is looked at, so a nil
\* request panics there.
BeginScrape(c) ==
    /\ fetches' = [fetches EXCEPT ![c] = @ + 1]
    /\ IF c = "pkt" /\ ~NewRequestOk(flags[c].host)
       THEN /\ pc' = [pc EXCEPT ![c] = "panicked"]
            /\ panicMsg' = NilDeref
       ELSE /\ pc' = [pc EXCEPT ![c] = "fetching"]
            /\ UNCHANGED panicMsg

\* scrapeGraph returns; after the first scrape the ticker is created
ReturnFromScrape(c) ==
    /\ pc' = [pc EXCEPT ![c] = "waiting"]
    /\ ticker' = [ticker EXCEPT ![c] = IF @ = "none" THEN "idle" ELSE @]

\* a poller that goes to its ticker without the first scrapeGraph()
PollerStartNoScrape(c) ==
    /\ Alive
    /\ pc[c] = "start"
    /\ ReturnFromScrape(c)
    /\ UNCHANGED << envVars, mainVars, panicMsg, registry, hung, scrapeVars,
                    events, fetches, recv, errLogged, dnsVars >>

\* the goroutine starts: the first scrapeGraph()
PollerStart(c) ==
    /\ Alive
    /\ pc[c] = "start"
    /\ BeginScrape(c)
    /\ UNCHANGED << envVars, mainVars, registry, hung, scrapeVars, ticker,
                    recv, errLogged, events, dnsVars >>

\* time passes: the ticker puts a tick in ticker.C (capacity 1; a tick that
\* finds one waiting there is dropped)
TickerFire(c) ==
    /\ Alive
    /\ ticker[c] # "none"
    /\ ticker' = [ticker EXCEPT ![c] = "pending"]
    /\ UNCHANGED << envVars, mainVars, panicMsg, registry, pc, hung, scrapeVars,
                    events, fetches, recv, errLogged, dnsVars >>

\* `for range ticker.C`: a tick is received and scrapeGraph() called
PollerTick(c) ==
    /\ Alive
    /\ pc[c] = "waiting"
    /\ ticker[c] = "pending"
    /\ ticker' = [ticker EXCEPT ![c] = "idle"]
    /\ recv' = [recv EXCEPT ![c] = @ + 1]
    /\ BeginScrape(c)
    /\ UNCHANGED << envVars, mainVars, registry, hung, scrapeVars, errLogged,
                    events, dnsVars >>

\* a poller that starts every ingestion from an empty registry
FetchGraphFreshRegistry(c, g) ==
    /\ Alive
    /\ pc[c] = "fetching"
    /\ ~hung[c]
    /\ events < MaxEvents
    /\ events' = events + 1
    /\ pc' = [pc EXCEPT ![c] = "ingesting"]
    /\ graph' = [graph EXCEPT ![c] = g]
    /\ idx' = [idx EXCEPT ![c] = 1]
    /\ registry' = [registry EXCEPT ![pollerView[c]] = EmptyRegistry]
    /\ UNCHANGED << envVars, mainVars, panicMsg, hung, addCalls, ticker,
                    fetches, recv, errLogged, dnsVars >>

\* the backing node answers with a graph: "Got %d nodes from lnd"
FetchGraph(c, g) ==
    /\ Alive
    /\ pc[c] = "fetching"
    /\ ~hung[c]
    /\ events < MaxEvents
    /\ events' = events + 1
    /\ pc' = [pc EXCEPT ![c] = "ingesting"]
    /\ graph' = [graph EXCEPT ![c] = g]
    /\ idx' = [idx EXCEPT ![c] = 1]
    /\ UNCHANGED << envVars, mainVars, panicMsg, registry, hung, addCalls, ticker,
                    fetches, recv, errLogged, dnsVars >>

\* what the poller reports of a failed fetch: pktPoller calls log.Errorf,
\* poller returns without a word
LogFetchError(c) ==
    IF c = "pkt" THEN [errLogged EXCEPT ![c] = @ + 1] ELSE errLogged

\* the fetch fails (the call errs, the answer cannot be unmarshalled):
\* scrapeGraph returns
FetchError(c) ==
    /\ Alive
    /\ pc[c] = "fetching"
    /\ ~hung[c]
    /\ events < MaxEvents
    /\ events' = events + 1
    /\ errLogged' = LogFetchError(c)
    /\ ReturnFromScrape(c)
    /\ UNCHANGED << envVars, mainVars, panicMsg, registry, hung, scrapeVars,
                    fetches, recv, dnsVars >>

\* the backing node will never answer this call; neither call carries a
\* deadline (context.Background(), http.Client{})
FetchHang(c) ==
    /\ Alive
    /\ pc[c] = "fetching"
    /\ ~hung[c]
    /\ hung' = [hung EXCEPT ![c] = TRUE]
    /\ UNCHANGED << envVars, mainVars, panicMsg, registry, pc, scrapeVars, ticker,
                    fetches, recv, errLogged, events, dnsVars >>

\* the loop without its `continue`
HasAddressesAlways(node) == TRUE

\* len(node.Addresses) == 0 is what the loop skips
HasAddresses(node) == Len(node.addrs) # 0

\* a loop that returns from scrapeGraph at the first AddNode that fails
IngestNodeAbortOnError(c) ==
    /\ Alive
    /\ pc[c] = "ingesting"
    /\ idx[c] <= Len(graph[c])
    /\ LET node == graph[c][idx[c]]
       IN  \/ /\ ~HasAddresses(node)
              /\ idx' = [idx EXCEPT ![c] = @ + 1]
              /\ UNCHANGED << registry, addCalls, pc, graph, ticker >>
           \/ /\ HasAddresses(node)
              /\ addCalls' = [addCalls EXCEPT ![c] = Append(@, node)]
              /\ registry' = [registry EXCEPT ![pollerView[c]] = Upsert(@, node)]
              /\ idx' = [idx EXCEPT ![c] = @ + 1]
              /\ UNCHANGED << pc, graph, ticker >>
           \/ /\ HasAddresses(node)
              /\ graph' = [graph EXCEPT ![c] = <<>>]
              /\ idx' = [idx EXCEPT ![c] = 0]
              /\ addCalls' = [addCalls EXCEPT ![c] = <<>>]
              /\ ReturnFromScrape(c)
              /\ UNCHANGED registry
    /\ UNCHANGED << envVars, mainVars, panicMsg, hung, fetches, recv, errLogged,
                    events, dnsVars >>

\* one turn of `for _, node := range graph.Nodes`; AddNode may fail (ok is
\* its outcome), which is logged and changes nothing
IngestNode(c) ==
    /\ Alive
    /\ pc[c] = "ingesting"
    /\ idx[c] <= Len(graph[c])
    /\ LET node == graph[c][idx[c]]
       IN  IF ~HasAddresses(node)
           THEN UNCHANGED << registry, addCalls >>
           ELSE /\ addCalls' = [addCalls EXCEPT ![c] = Append(@, node)]
                /\ \E ok \in BOOLEAN :
                     registry' =
                       IF ok
                       THEN [registry EXCEPT ![pollerView[c]] = Upsert(@, node)]
                       ELSE registry
    /\ idx' = [idx EXCEPT ![c] = @ + 1]
    /\ UNCHANGED << envVars, mainVars, panicMsg, pc, hung, graph, ticker,
                    fetches, recv, errLogged, events, dnsVars >>

\* the loop is over: scrapeGraph returns and its locals are gone
IngestDone(c) ==
    /\ Alive
    /\ pc[c] = "ingesting"
    /\ idx[c] > Len(graph[c])
    /\ graph' = [graph EXCEPT ![c] = <<>>]
    /\ idx' = [idx EXCEPT ![c] = 0]
    /\ addCalls' = [addCalls EXCEPT ![c] = <<>>]
    /\ ReturnFromScrape(c)
    /\ UNCHANGED << envVars, mainVars, panicMsg, registry, hung, fetches, recv,
                    errLogged, events, dnsVars >>

----------------------------------------------------------------------------
QueryPrefixes == { Prefix(c) : c \in Chains }

Next ==
    \/ \E c \in LndChains : MainLnd(c)
    \/ MainPkt
    \/ MainServe
    \/ \E p \in QueryPrefixes : ServeQuery(p)
    \/ \E c \in Chains : PollerStart(c)
    \/ \E c \in Chains : TickerFire(c)
    \/ \E c \in Chains : PollerTick(c)
    \/ \E c \in Chains : \E g \in Graphs(c) : FetchGraph(c, g)
    \/ \E c \in Chains : FetchError(c)
    \/ \E c \in Chains : FetchHang(c)
    \/ \E c \in Chains : IngestNode(c)
    \/ \E c \in Chains : IngestDone(c)

Spec == Init /\ [][Next]_vars

\* The Go scheduler runs every runnable goroutine: a poller that can take a
\* step takes it, and so does main where it does not wait for a backing
\* node.  A backing node either answers a call or never will.  The ticker
\* and the DNS clients owe nothing.
Fairness ==
    /\ WF_vars(MainPkt)
    /\ WF_vars(MainServe)
    /\ \A c \in Chains :
         /\ WF_vars(PollerStart(c))
         /\ WF_vars(PollerTick(c))
         /\ WF_vars(IngestNode(c))
         /\ WF_vars(IngestDone(c))
         /\ WF_vars(FetchHang(c) \/ FetchError(c) \/ \E g \in Graphs(c) : FetchGraph(c, g))

LiveSpec == Spec /\ Fairness

----------------------------------------------------------------------------
(* Claims *)

StartupPcs == {"btc", "ltc", "test", "pkt", "check"}

\* the fetch chain c has issued fails in this step: scrapeGraph returns
\* without a graph, or the fetch panics
FetchFails(c) ==
    \/ pc[c] = "fetching" /\ pc'[c] = "waiting"
    \/ pc[c] # "panicked" /\ pc'[c] = "panicked"

\* C1: when a poller's fetch fails, the tick does no AddNode, the registry
\* is what it was, and the poller is back at its ticker for the next tick.
C1_FailedTickSkipped ==
    [][\A c \in Chains :
         FetchFails(c) => /\ registry' = registry
                          /\ addCalls' = addCalls
                          /\ Alive'
                          /\ pc'[c] = "waiting"]_vars

\* C2: every fetch that fails and returns is reported with log.Errorf.
C2_FailureLogged ==
    [][\A c \in Chains :
         (pc[c] = "fetching" /\ pc'[c] = "waiting")
            => errLogged'[c] = errLogged[c] + 1]_vars

\* C3: once main has reached Serve, nothing a poller meets in a tick ends
\* the process.
C3_TickFailureContained ==
    [][(mainPc = "serving" /\ Alive) => Alive']_vars

NonEmptyAddrs(node) == Len(node.addrs) > 0

\* C4: AddNode is called with exactly the fetched nodes that have an
\* address, in their order, and no registry holds a record without one.
C4_NoEmptyAddressAdmitted ==
    /\ \A c \in Chains :
         /\ \A i \in DOMAIN addCalls[c] : Len(addCalls[c][i].addrs) > 0
         /\ pc[c] = "ingesting" =>
              addCalls[c] = SelectSeq(SubSeq(graph[c], 1, idx[c] - 1), NonEmptyAddrs)
    /\ \A v \in DOMAIN registry :
         \A k \in DOMAIN registry[v] : Len(registry[v][k]) > 0

\* a graph of an addressless node and an addressed one has been ranged over
C4_Witness ==
    \E c \in Chains :
       /\ pc[c] = "ingesting"
       /\ Len(graph[c]) = 2
       /\ idx[c] = 3
       /\ Len(addCalls[c]) = 1
       /\ \E k \in DOMAIN registry[pollerView[c]] : TRUE

\* C5: with no chain configured the process panics and the responder never
\* serves: Serve is reached only with a chain in the map.
C5_NoChainNoServe ==
    /\ mainPc = "serving" => DOMAIN netViewMap # {}
    /\ (\A c \in Chains : ~Configured(c)) =>
          /\ mainPc # "serving"
          /\ lastAnswer = NoAnswer
          /\ mainPc \notin StartupPcs => panicMsg = MustSpecify

C5_Witness ==
    /\ mainPc = "panicked"
    /\ panicMsg = MustSpecify
    /\ DOMAIN netViewMap = {}

\* C6: the responder never serves a zone with a chain whose backing node
\* was unreachable at launch.
C6_UnreachableNeverServed ==
    mainPc = "serving" =>
       \A p \in DOMAIN netViewMap : upAtLaunch[ChainOfPrefix(p)]

\* C7: a started poller has issued one fetch at its start and one more per
\* tick it received, and none before it started.
C7_OneFetchPerTick ==
    \A c \in Chains :
       /\ fetches[c] = IF pc[c] \in {"off", "start"} THEN 0 ELSE 1 + recv[c]
       /\ ticker[c] # "none" => fetches[c] >= 1
       /\ pc[c] \in {"off", "start"} => ticker[c] = "none" /\ recv[c] = 0

C7_Witness ==
    \E c \in Chains : recv[c] = 1 /\ fetches[c] = 2 /\ pc[c] = "fetching"


\* C8: a poller that is fetching is back at its ticker in the end, also
\* when the backing node never answers (the process may have ended).
C8_HungFetchTimesOut ==
    \A c \in Chains :
       (pc[c] = "fetching") ~> (pc[c] = "waiting" \/ ~Alive)

\* the started pollers
Started == { c \in Chains : pc[c] # "off" }

C9_Views ==
    /\ \A c \in Started :
         /\ pollerView[c] = ViewName(c)
         /\ Prefix(c) \in DOMAIN netViewMap
         /\ netViewMap[Prefix(c)] = pollerView[c]
         /\ \A d \in Started \ {c} : pollerView[d] # pollerView[c]
    /\ \A p \in DOMAIN netViewMap :
         /\ ChainOfPrefix(p) \in Started
         /\ \A k \in DOMAIN registry[netViewMap[p]] : k[1] = ChainOfPrefix(p)

\* chain c's poller or its backing node takes the step
StepOf(c) ==
    \/ pc'[c] # pc[c]
    \/ hung'[c] # hung[c]
    \/ idx'[c] # idx[c]

C9_Step ==
    \A c \in Chains :
       StepOf(c) =>
          \A v \in DOMAIN registry \ {ViewName(c)} :
             /\ v \in DOMAIN registry'
             /\ registry'[v] = registry[v]

\* C9: every poller writes the one view registered under its own chain's
\* prefix and no two pollers share a view; a view holds only peers its own
\* chain's backing node reported, and a step of one chain's poller (a
\* success, a failure, a hang) leaves the registries of the others alone.
C9_ViewIsolation == []C9_Views /\ [][C9_Step]_vars

\* two chains have ingested peers, each into its own view
C9_Witness ==
    \E c, d \in Started :
       /\ c # d
       /\ DOMAIN registry[pollerView[c]] # {}
       /\ DOMAIN registry[pollerView[d]] # {}

\* C10: while a fetch of chain c is outstanding, every other poller can take
\* its next step (start, receive a tick, be answered, ingest) and the
\* responder can answer a query.
C10_SlowFetchDelaysOwnChainOnly ==
    \A c \in Chains :
       (Alive /\ pc[c] = "fetching") =>
          /\ \A d \in Chains \ {c} :
               /\ pc[d] = "start" => ENABLED PollerStart(d)
               /\ (pc[d] = "waiting" /\ ticker[d] = "pending") => ENABLED PollerTick(d)
               /\ (pc[d] = "fetching" /\ ~hung[d] /\ events < MaxEvents) =>
                    \A g \in Graphs(d) : ENABLED FetchGraph(d, g)
               /\ pc[d] = "ingesting" => ENABLED (IngestNode(d) \/ IngestDone(d))
          /\ (mainPc = "serving" /\ events < MaxEvents) =>
               \A p \in QueryPrefixes : ENABLED ServeQuery(p)

\* one chain's fetch hangs while another chain ingests and the responder serves
C10_Witness ==
    \E c, d \in Chains :
       /\ c # d
       /\ Alive
       /\ pc[c] = "fetching" /\ hung[c]
       /\ pc[d] = "ingesting" /\ idx[d] = 2
       /\ mainPc = "serving"

\* the steps of the poller's cycle: the first scrape or a received tick
\* issues a fetch, a fetch ends in a graph to ingest or in a failure, the
\* ingestion ends at the ticker
PollerCycle ==
    { <<"start", "fetching">>, <<"waiting", "fetching">>,
      <<"fetching", "ingesting">>, <<"fetching", "waiting">>,
      <<"ingesting", "waiting">> }

\* C11: a started poller moves only along idle -> fetching -> ingesting ->
\* idle (or fetching -> idle on a failed fetch) and has no terminal state; a
\* fetch is issued only by a poller that is neither fetching nor ingesting,
\* and a tick that fires during a scrape changes nothing but the ticker.
C11_PollerCycle ==
    [][\A c \in Chains :
         /\ (pc[c] # "off" /\ pc'[c] # pc[c]) => << pc[c], pc'[c] >> \in PollerCycle
         /\ fetches'[c] # fetches[c] =>
               /\ pc[c] \in {"start", "waiting"}
               /\ fetches'[c] = fetches[c] + 1
         /\ ( /\ pc[c] \in {"fetching", "ingesting"}
              /\ ticker[c] = "idle" /\ ticker'[c] = "pending" ) =>
               /\ pc' = pc
               /\ fetches' = fetches
               /\ UNCHANGED << registry, scrapeVars >>]_vars

\* C12: no step removes an identity from a registry or a view from the
\* process: whatever the ticks bring, the identities of a chain's registry
\* only grow.
C12_NeverEvicts ==
    [][\A v \in DOMAIN registry :
         /\ v \in DOMAIN registry'
         /\ DOMAIN registry[v] \subseteq DOMAIN registry'[v]]_vars

\* a later poll has been ingested to its end without a peer that an
\* earlier poll admitted, and the peer is still there
C12_Witness ==
    \E c \in Chains :
       /\ pc[c] = "ingesting"
       /\ fetches[c] >= 2
       /\ idx[c] > Len(graph[c])
       /\ \E k \in DOMAIN registry[pollerView[c]] :
             \A i \in DOMAIN graph[c] : graph[c][i].pubKey # k

\* C13: from the making of the DNS server on, the map (its prefixes and the
\* view of each), the root domain and the authoritative IP stay what they
\* were when the server was made, and no view is made or dropped; only the
\* registries inside the views change.
C13_ZoneImmutable ==
    [][dnsServer # NoDnsServer =>
          /\ netViewMap' = netViewMap
          /\ dnsServer' = dnsServer
          /\ dnsServer = NewDnsServer(rootDomain, authoritativeIP)
          /\ DOMAIN registry' = DOMAIN registry]_vars

\* the server has answered with a peer and a chain's second poll is under way
C13_Witness ==
    /\ dnsServer # NoDnsServer
    /\ lastAnswer.peers # {}
    /\ \E c \in Chains : pc[c] = "fetching" /\ recv[c] = 1

\* C14: every change of a registry that a reader can come upon is one whole
\* upsert: the record of the node the poller is at goes from what it was
\* to that node's complete address list in one step, and every other
\* record of the view stays what it was.
C14_UpsertAtomic ==
    [][\A c \in Chains :
         LET v == pollerView[c]
         IN  (v # "" /\ v \in DOMAIN registry /\ registry'[v] # registry[v]) =>
                /\ pc[c] = "ingesting"
                /\ idx[c] \in DOMAIN graph[c]
                /\ idx'[c] = idx[c] + 1
                /\ LET node == graph[c][idx[c]]
                   IN  /\ DOMAIN registry'[v] = DOMAIN registry[v] \cup {node.pubKey}
                       /\ registry'[v][node.pubKey] = node.addrs
                       /\ \A k \in DOMAIN registry[v] \ {node.pubKey} :
                             registry'[v][k] = registry[v][k]]_vars

\* a reader was answered from a tick that is only partly ingested: the
\* first node of the graph is in the answer, the second is not admitted yet
C14_Witness ==
    \E c \in Chains :
       /\ pc[c] = "ingesting"
       /\ fetches[c] = 1
       /\ Len(graph[c]) = 2
       /\ idx[c] = 2
       /\ Len(graph[c][2].addrs) > 0
       /\ lastAnswer = [prefix |-> Prefix(c), peers |-> {graph[c][1].pubKey}]

\* C15: a turn of the ingestion loop goes on to the next node whatever
\* AddNode returned: the loop is left only at the end of the graph, by then
\* every node with an address has been passed to AddNode, and the poller
\* is back at its ticker.
C15_AddErrorDoesNotAbort ==
    [][\A c \in Chains :
         (pc[c] = "ingesting" /\ StepOf(c)) =>
            IF idx[c] <= Len(graph[c])
            THEN /\ pc'[c] = "ingesting"
                 /\ graph'[c] = graph[c]
                 /\ idx'[c] = idx[c] + 1
                 /\ addCalls'[c] = IF NonEmptyAddrs(graph[c][idx[c]])
                                   THEN Append(addCalls[c], graph[c][idx[c]])
                                   ELSE addCalls[c]
            ELSE /\ addCalls[c] = SelectSeq(graph[c], NonEmptyAddrs)
                 /\ pc'[c] = "waiting"]_vars

\* AddNode failed for the first node of a graph (it is not in the registry)
\* and the second was passed to AddNode all the same and admitted
C15_Witness ==
    \E c \in Chains :
       /\ pc[c] = "ingesting"
       /\ Len(graph[c]) = 2
       /\ idx[c] = 3
       /\ Len(addCalls[c]) = 2
       /\ addCalls[c][1].pubKey \notin DOMAIN registry[pollerView[c]]
       /\ addCalls[c][2].pubKey \in DOMAIN registry[pollerView[c]]

\* the chains the command line configures in full
FullyConfigured ==
    { c \in LndChains : flags[c].host # "" /\ flags[c].tls # "" /\ flags[c].mac # "" }
       \cup { c \in {"pkt"} : flags[c].host # <<>> }

\* the chains whose block main has gone through
BlocksDone ==
    CASE mainPc = "btc"  -> {}
      [] mainPc = "ltc"  -> {"btc"}
      [] mainPc = "test" -> {"btc", "ltc"}
      [] mainPc = "pkt"  -> {"btc", "ltc", "test"}
      [] mainPc \in {"check", "serving"} -> Chains
      [] OTHER -> {}

\* C16: once main is through the chain blocks the prefixes of the map are
\* those of the fully configured chains and no others (block by block on
\* the way there); a chain with only some of its flags is never in the
\* map and is never what main panics about.
C16_PrefixesAreConfiguredChains ==
    /\ \A c \in BlocksDone : Prefix(c) \in DOMAIN netViewMap <=> c \in FullyConfigured
    /\ { ChainOfPrefix(p) : p \in DOMAIN netViewMap } \subseteq FullyConfigured
    /\ mainPc \in {"check", "serving"} =>
          DOMAIN netViewMap = { Prefix(c) : c \in FullyConfigured }
    /\ \A c \in LndChains \ FullyConfigured : panicMsg # UnableToConnect(c)
    /\ "" \in DOMAIN netViewMap => "btc" \in FullyConfigured

\* the responder serves a zone of one chain while the bitcoin chain, given a
\* host and a TLS path but no macaroon, was skipped: no default prefix
C16_Witness ==
    /\ mainPc = "serving"
    /\ flags["btc"].host # "" /\ flags["btc"].tls # "" /\ flags["btc"].mac = ""
    /\ "" \notin DOMAIN netViewMap
    /\ Cardinality(DOMAIN netViewMap) = 1

\* C17: when the DNS server is made and serves, every fully configured
\* chain has its view, its poller has been started on that view, and the
\* view is in the map under the chain's prefix; no query is answered
\* before that.
C17_ServeAfterChainsSetUp ==
    (mainPc = "serving" \/ dnsServer # NoDnsServer \/ lastAnswer # NoAnswer) =>
       \A c \in FullyConfigured :
          /\ ViewName(c) \in DOMAIN registry
          /\ pc[c] # "off"
          /\ pollerView[c] = ViewName(c)
          /\ Prefix(c) \in DOMAIN netViewMap
          /\ netViewMap[Prefix(c)] = ViewName(c)

\* the responder has answered a query for a chain whose first fetch is not
\* over (or not yet issued): the registry is empty and so is the answer
C17_Witness ==
    \E c \in FullyConfigured :
       /\ mainPc = "serving"
       /\ pc[c] \in {"start", "fetching"}
       /\ fetches[c] <= 1
       /\ registry[ViewName(c)] = EmptyRegistry
       /\ lastAnswer = [prefix |-> Prefix(c), peers |-> {}]

====
